---- MODULE Spec2Model ----
(***************************************************************************)
(* A model of rustilities: the syntactic token engine                      *)
(* (src/src/parsing.rs: syntactic_token_tree_compare,                      *)
(* syntactic_token_stream_compare, syntactic_token_stream_contains over    *)
(* proc_macro2 token trees), format_dir (src/src/fmt.rs) and the manifest  *)
(* functions (src/src/manifest.rs).                                        *)
(*                                                                         *)
(* A TokenTree is a record tagged by `variant`; a TokenStream is the       *)
(* sequence of its top-level token trees.  The functions are pure, so      *)
(* each is an operator computed the way the code computes it; a            *)
(* specification draws the two arguments from a bounded universe of        *)
(* streams and its actions call the functions on them.                     *)
(***************************************************************************)
EXTENDS Integers, Sequences, FiniteSets, TLC

VARIABLES
    small_stream, large_stream,  \* the streams handed to syntactic_token_stream_contains
    token1, token2, \* the token trees handed to the comparisons
    pc,             \* "start", then the function that was called
    result,         \* "none", then the outcome of the call
    nightly,        \* format_dir: the nightly toolchain has the rustfmt component
    commands,       \* format_dir: the commands run so far, each with its outcome
    file,           \* add_crate_to_dependencies: the file at manifest_path
    dependency,     \* add_crate_to_dependencies: dependency_name and dependency_config
    writes,         \* add_crate_to_dependencies: the writes attempted on the file
    manifests,      \* find_*_manifest: what Manifest::from_path finds in each directory
    cwd,            \* find_*_manifest: the current directory
    path,           \* find_*_manifest: the path handed to the function
    input           \* extract_generics, tt_without_docs: the argument

parsingVars == <<small_stream, large_stream, token1, token2>>

fmtVars == <<nightly, commands>>

depsVars == <<file, dependency, writes>>

findVars == <<manifests, cwd, path>>

synVars == <<input>>

vars == <<parsingVars, fmtVars, depsVars, findVars, synVars, pc, result>>

(***************************************************************************)
(* Bounds of the model.                                                    *)
(***************************************************************************)
\* nodes (tokens, nested ones included) of the needle handed to contains
MaxSmallNodes == 3
\* nodes of the haystack handed to contains
MaxLargeNodes == 4
\* nodes of each of the two token trees handed to the comparisons
MaxTreeNodes == 3

\* find_*_manifest: the directories below one another, the root first
MaxDepth == 3

\* prefix_with_current_dir: the segments of a path between its separators
MaxSegments == 3
\* extract_generics: the parameters of the Generics
MaxParams == 3
\* tt_without_docs: the attributes of the item
MaxAttrs == 3

(***************************************************************************)
(* proc_macro2's token trees, as the tests build them.                     *)
(***************************************************************************)
\* TokenTree::Ident(Ident::new(sym, span)): the span is not modelled
Ident(sym) == [variant |-> "Ident", sym |-> sym]

\* TokenTree::Punct(Punct::new(ch, spacing))
Punct(ch, spacing) == [variant |-> "Punct", ch |-> ch, spacing |-> spacing]

\* TokenTree::Literal(Literal::<ctor>(value)): the constructor is the
\* literal's declared sub-kind
Literal(ctor, value) == [variant |-> "Literal", ctor |-> ctor, value |-> value]

\* TokenTree::Group(Group::new(delimiter, stream))
Group(delimiter, stream) ==
    [variant |-> "Group", delimiter |-> delimiter, stream |-> stream]

\* Ident::to_string: the identifier's text
IdentToString(id) == id.sym

\* Literal::to_string: the rendering of the literal.  An unsuffixed integer
\* renders as its digits, a suffixed one as its digits followed by the type,
\* a string literal as its content between double quotes.
LiteralToString(l) ==
    CASE l.ctor = "u8_unsuffixed" -> ToString(l.value)
      [] l.ctor = "usize_unsuffixed" -> ToString(l.value)
      [] l.ctor = "i32_suffixed" -> ToString(l.value) \o "i32"
      [] l.ctor = "string" -> "\"" \o l.value \o "\""

(***************************************************************************)
(* syntactic_token_tree_compare (parsing.rs:187-209)                       *)
(***************************************************************************)
RECURSIVE syntactic_token_tree_compare(_, _)

\* mutant: each tree of the first vector equals some tree of the second
ZipAll_AnyOrder(tt1, tt2) ==
    \A k \in 1..Len(tt1) :
        \E m \in 1..Len(tt2) : syntactic_token_tree_compare(tt1[k], tt2[m])

\* g1_tt.iter().zip(g2_tt.iter()).all(|(tt1, tt2)| compare(tt1, tt2)),
\* for two vectors of the same length
ZipAll(tt1, tt2) ==
    \A k \in 1..Len(tt1) : syntactic_token_tree_compare(tt1[k], tt2[k])

\* mutant: the delimiters are not compared
GroupCompare_IgnoreDelimiter(g1, g2) ==
    IF Len(g1.stream) # Len(g2.stream)
    THEN FALSE
    ELSE ZipAll(g1.stream, g2.stream)

\* mutant: the length test is inverted
GroupCompare_LengthInverted(g1, g2) ==
    IF g1.delimiter # g2.delimiter
    THEN FALSE
    ELSE IF Len(g1.stream) = Len(g2.stream)
         THEN FALSE
         ELSE TRUE

\* the (Group, Group) arm
GroupCompare(g1, g2) ==
    IF g1.delimiter # g2.delimiter
    THEN FALSE
    ELSE IF Len(g1.stream) # Len(g2.stream)
         THEN FALSE
         ELSE ZipAll(g1.stream, g2.stream)

\* mutant: a None-delimited group of one token is compared as that token
CrossVariantCompare_UnwrapNone(tree1, tree2) ==
    IF tree1.variant = "Group" /\ tree1.delimiter = "None" /\ Len(tree1.stream) = 1
    THEN syntactic_token_tree_compare(tree1.stream[1], tree2)
    ELSE FALSE

\* the `_ => false` arm
CrossVariantCompare(tree1, tree2) == FALSE

\* the (Ident, Ident) arm: id1 == id2.to_string().as_str()
IdentCompare(id1, id2) == IdentToString(id1) = IdentToString(id2)

\* mutant: the spacing is compared too
PunctCompare_WithSpacing(p1, p2) == p1.ch = p2.ch /\ p1.spacing = p2.spacing

\* the (Punct, Punct) arm: p1.as_char() == p2.as_char()
PunctCompare(p1, p2) == p1.ch = p2.ch

\* the (Literal, Literal) arm: l1.to_string() == l2.to_string()
LiteralCompare(l1, l2) == LiteralToString(l1) = LiteralToString(l2)

syntactic_token_tree_compare(tree1, tree2) ==
    CASE tree1.variant = "Ident" /\ tree2.variant = "Ident" ->
            IdentCompare(tree1, tree2)
      [] tree1.variant = "Punct" /\ tree2.variant = "Punct" ->
            PunctCompare(tree1, tree2)
      [] tree1.variant = "Literal" /\ tree2.variant = "Literal" ->
            LiteralCompare(tree1, tree2)
      [] tree1.variant = "Group" /\ tree2.variant = "Group" ->
            GroupCompare(tree1, tree2)
      [] OTHER -> CrossVariantCompare(tree1, tree2)

(***************************************************************************)
(* syntactic_token_stream_compare (parsing.rs:235-247)                     *)
(***************************************************************************)
\* mutant: the lengths are not compared, zip stops at the shorter stream
syntactic_token_stream_compare_NoLength(s1, s2) ==
    \A k \in 1..(IF Len(s1) < Len(s2) THEN Len(s1) ELSE Len(s2)) :
        syntactic_token_tree_compare(s1[k], s2[k])

syntactic_token_stream_compare(s1, s2) ==
    IF Len(s1) # Len(s2)
    THEN FALSE
    ELSE ZipAll(s1, s2)

(***************************************************************************)
(* syntactic_token_stream_contains (parsing.rs:339-374)                    *)
(*                                                                         *)
(* The function returns a bool or panics on an out-of-bounds index; its    *)
(* outcome is "true", "false" or "panic".  Indices are the code's, from 0. *)
(***************************************************************************)
At(tt, i) == tt[i + 1]

RECURSIVE syntactic_token_stream_contains(_, _)
RECURSIVE VerifyRun(_, _, _, _)
RECURSIVE ScanFrom(_, _, _)

\* mutant: a haystack as long as the needle is too short as well
TooShort_OrEqual(small_tt, large_tt) == Len(large_tt) <= Len(small_tt)

\* mutant: the lengths are not compared
TooShort_Never(small_tt, large_tt) == FALSE

\* `if large_tt.len() < small_tt.len() { return false; }`
TooShort(small_tt, large_tt) == Len(large_tt) < Len(small_tt)

\* where the outer loop resumes after the run aligned at i failed at j
ResumeAt(i, j) == j

\* mutant: the run counts as verified once its first tree matched
VerifyRun_FirstOnly(small_tt, large_tt, i, j) == [out |-> "matched", j |-> j]

\* `for j in i..i + small_tt.len()`, from j on: "matched" when the loop
\* ends, "mismatch" at the first j whose trees differ, "panic" when
\* large_tt[j] is out of bounds
VerifyRun(small_tt, large_tt, i, j) ==
    IF j >= i + Len(small_tt)
    THEN [out |-> "matched", j |-> j]
    ELSE IF j >= Len(large_tt)
         THEN [out |-> "panic", j |-> j]
         ELSE IF ~syntactic_token_tree_compare(At(large_tt, j), At(small_tt, j - i))
              THEN [out |-> "mismatch", j |-> j]
              ELSE VerifyRun(small_tt, large_tt, i, j + 1)

\* `match &large_tt[i] { TokenTree::Group(group) if contains(small, group.stream()) => return true, _ => () }`
\* then `i += 1`
DescendThenNext(small_tt, large_tt, i) ==
    IF At(large_tt, i).variant = "Group"
    THEN LET inner == syntactic_token_stream_contains(small_tt, At(large_tt, i).stream)
         IN  IF inner = "false"
             THEN ScanFrom(small_tt, large_tt, i + 1)
             ELSE inner
    ELSE ScanFrom(small_tt, large_tt, i + 1)

\* `'outer: while i < large_tt.len()`, from i on
ScanFrom(small_tt, large_tt, i) ==
    IF i >= Len(large_tt)
    THEN "false"
    ELSE IF syntactic_token_tree_compare(At(large_tt, i), At(small_tt, 0))
         THEN LET run == VerifyRun(small_tt, large_tt, i, i)
              IN  CASE run.out = "matched" -> "true"
                    [] run.out = "panic" -> "panic"
                    [] OTHER -> ScanFrom(small_tt, large_tt, ResumeAt(i, run.j))
         ELSE DescendThenNext(small_tt, large_tt, i)

\* mutant: an empty needle is contained in an empty haystack only
syntactic_token_stream_contains_EmptyInEmpty(small, large) ==
    IF small = <<>>
    THEN IF large = <<>> THEN "true" ELSE "false"
    ELSE IF TooShort(small, large)
         THEN "false"
         ELSE ScanFrom(small, large, 0)

syntactic_token_stream_contains(small, large) ==
    IF small = <<>>
    THEN "true"
    ELSE IF TooShort(small, large)
         THEN "false"
         ELSE ScanFrom(small, large, 0)

\* a bool as an outcome
Returned(b) == IF b THEN "true" ELSE "false"

(***************************************************************************)
(* The bounded universes the arguments are drawn from.                     *)
(***************************************************************************)
RECURSIVE StreamsOfSize(_, _, _)
RECURSIVE TreesOfSize(_, _, _)

\* the token trees of exactly n nodes over the given leaves and delimiters
TreesOfSize(leaves, delims, n) ==
    IF n = 1
    THEN leaves \cup {Group(d, <<>>) : d \in delims}
    ELSE {Group(d, s) : d \in delims, s \in StreamsOfSize(leaves, delims, n - 1)}

\* the streams of exactly n nodes
StreamsOfSize(leaves, delims, n) ==
    IF n = 0
    THEN {<<>>}
    ELSE UNION {{<<t>> \o s : t \in TreesOfSize(leaves, delims, k),
                              s \in StreamsOfSize(leaves, delims, n - k)}
                : k \in 1..n}

StreamsUpTo(leaves, delims, n) ==
    UNION {StreamsOfSize(leaves, delims, k) : k \in 0..n}

\* the needles and haystacks of the containment search
SearchLeaves == {Ident("x"), Ident("y")}

SearchDelimiters == {"Parenthesis"}

Needles == StreamsUpTo(SearchLeaves, SearchDelimiters, MaxSmallNodes)

Haystacks == StreamsUpTo(SearchLeaves, SearchDelimiters, MaxLargeNodes)

\* the token trees of the comparisons: any leaf, or a group over GroupLeaves
Leaves ==
    {Ident("x"), Ident("y"),
     Punct(";", "Alone"), Punct(";", "Joint"), Punct(",", "Alone"),
     Literal("u8_unsuffixed", 1), Literal("usize_unsuffixed", 1),
     Literal("i32_suffixed", 1), Literal("string", "x")}

GroupLeaves ==
    {Ident("x"), Punct(";", "Alone"), Punct(";", "Joint"),
     Literal("u8_unsuffixed", 1), Literal("usize_unsuffixed", 1)}

Delimiters == {"Parenthesis", "None"}

Trees ==
    Leaves \cup
    {Group(d, s) : d \in Delimiters,
                   s \in StreamsUpTo(GroupLeaves, Delimiters, MaxTreeNodes - 1)}

\* no token tree: the comparisons are not part of the run
NoTree == [variant |-> "none"]

NoInput == [kind |-> "none"]

\* the state of the modules that are not part of the run
Idle(modules) ==
    /\ "parsing" \in modules
          => /\ small_stream = <<>>
             /\ large_stream = <<>>
             /\ token1 = NoTree
             /\ token2 = NoTree
    /\ "syn" \in modules => input = NoInput
    /\ "fmt" \in modules
          => /\ nightly = FALSE
             /\ commands = <<>>
    /\ "manifest" \in modules
          => /\ file = [exists |-> FALSE]
             /\ dependency = [name |-> ""]
             /\ writes = <<>>
    /\ "find" \in modules
          => /\ manifests = <<>>
             /\ cwd = 0
             /\ path = <<>>

(***************************************************************************)
(* Spec: the containment search on a needle and a haystack.                *)
(***************************************************************************)
Init ==
    /\ small_stream \in Needles
    /\ large_stream \in Haystacks
    /\ token1 = NoTree
    /\ token2 = NoTree
    /\ Idle({"syn", "fmt", "manifest", "find"})
    /\ pc = "start"
    /\ result = "none"

\* syntactic_token_stream_contains(small_stream, large_stream)
Contains ==
    /\ pc = "start"
    /\ result' = syntactic_token_stream_contains(small_stream, large_stream)
    /\ pc' = "contains"
    /\ UNCHANGED <<parsingVars, synVars, fmtVars, depsVars, findVars>>

Next == Contains

Spec == Init /\ [][Next]_vars

(***************************************************************************)
(* SpecCompare: the comparisons on two token trees, and on the streams of  *)
(* two groups.                                                             *)
(***************************************************************************)
InitCompare ==
    /\ token1 \in Trees
    /\ token2 \in Trees
    /\ small_stream = <<>>
    /\ large_stream = <<>>
    /\ Idle({"syn", "fmt", "manifest", "find"})
    /\ pc = "start"
    /\ result = "none"

\* syntactic_token_tree_compare(&token1, &token2)
TreeCompare ==
    /\ pc = "start"
    /\ result' = Returned(syntactic_token_tree_compare(token1, token2))
    /\ pc' = "tree_compare"
    /\ UNCHANGED <<parsingVars, synVars, fmtVars, depsVars, findVars>>

\* syntactic_token_stream_compare(g1.stream(), g2.stream()) for two groups
StreamCompare ==
    /\ pc = "start"
    /\ token1.variant = "Group"
    /\ token2.variant = "Group"
    /\ result' = Returned(syntactic_token_stream_compare(token1.stream, token2.stream))
    /\ pc' = "stream_compare"
    /\ UNCHANGED <<parsingVars, synVars, fmtVars, depsVars, findVars>>

NextCompare == TreeCompare \/ StreamCompare

SpecCompare == InitCompare /\ [][NextCompare]_vars

(***************************************************************************)
(* format_dir (fmt.rs:18-52)                                               *)
(*                                                                         *)
(* Command::output() of each cargo invocation is an outcome: an I/O error  *)
(* (the process could not be started) or the exit of the process, with     *)
(* its status and its standard error.                                      *)
(***************************************************************************)
NightlyFmt == "cargo +nightly fmt --all"

StableFmt == "cargo fmt --all"

IoErrorKinds == {"NotFound", "PermissionDenied"}

StderrTexts ==
    {"", "error: could not find Cargo.toml", "error: expected item",
     "error: 'cargo-fmt' is not installed for the toolchain 'nightly'"}

IoError(kind) == [kind |-> "Io", io |-> kind, success |-> FALSE, stderr |-> ""]

Exit(success, stderr) ==
    [kind |-> "Exit", io |-> "", success |-> success, stderr |-> stderr]

Outcomes ==
    {IoError(k) : k \in IoErrorKinds}
    \cup {Exit(ok, text) : ok \in BOOLEAN, text \in StderrTexts}

\* what a command can yield: without the nightly rustfmt component
\* `cargo +nightly fmt` does not exit successfully
CanYield(cmd, out) ==
    (cmd = NightlyFmt /\ ~nightly) => ~(out.kind = "Exit" /\ out.success)

\* the values format_dir returns
Ok == [kind |-> "Ok"]

ErrIO(kind) == [kind |-> "Err", error |-> "IO", io |-> kind]

ErrDescriptive(msg) == [kind |-> "Err", error |-> "Descriptive", msg |-> msg]

NoResult == [kind |-> "none"]

\* mutant: the fallback runs whenever the first command exited
NeedsFallback_AfterAnyExit(out) == out.kind = "Exit"

\* mutant: the fallback runs after an I/O error too
NeedsFallback_AfterIoError(out) == ~out.success

\* `.map(|output| if output.status.success() { output } else { <fallback> })`:
\* the closure runs on Ok(output) only
NeedsFallback(out) == out.kind = "Exit" /\ ~out.success

\* mutant: the first command's outcome is the one looked at
Surfaced_First(cmds) == cmds[1].out

\* the outcome handed to map_or_else: the fallback's when it ran
Surfaced(cmds) == cmds[Len(cmds)].out

\* `.map_or_else(|err| Err(err.into()), |output| ...)`
FormatResult(out) ==
    IF out.kind = "Io"
    THEN ErrIO(out.io)
    ELSE IF out.success
         THEN Ok
         ELSE ErrDescriptive(out.stderr)

InitFmt ==
    /\ nightly \in BOOLEAN
    /\ commands = <<>>
    /\ Idle({"parsing", "syn", "manifest", "find"})
    /\ pc = "start"
    /\ result = NoResult

\* Command::new("cargo").arg("+nightly").arg("fmt").arg("--all").output()
RunNightlyFmt ==
    /\ pc = "start"
    /\ \E out \in Outcomes :
          /\ CanYield(NightlyFmt, out)
          /\ commands' = Append(commands, [cmd |-> NightlyFmt, out |-> out])
    /\ pc' = "primary_done"
    /\ UNCHANGED <<parsingVars, synVars, depsVars, findVars, nightly, result>>

\* Command::new("cargo").arg("fmt").arg("--all").output().expect(EXPECT_MSG):
\* an I/O error here panics
RunStableFmt ==
    /\ pc = "primary_done"
    /\ NeedsFallback(commands[1].out)
    /\ \E out \in Outcomes :
          /\ CanYield(StableFmt, out)
          /\ commands' = Append(commands, [cmd |-> StableFmt, out |-> out])
          /\ pc' = IF out.kind = "Io" THEN "panicked" ELSE "fallback_done"
    /\ UNCHANGED <<parsingVars, synVars, depsVars, findVars, nightly, result>>

\* the value of do_format_dir
FormatReturn ==
    /\ \/ pc = "primary_done" /\ ~NeedsFallback(commands[1].out)
       \/ pc = "fallback_done"
    /\ result' = FormatResult(Surfaced(commands))
    /\ pc' = "returned"
    /\ UNCHANGED <<parsingVars, synVars, depsVars, findVars, nightly, commands>>

NextFmt == RunNightlyFmt \/ RunStableFmt \/ FormatReturn

SpecFmt == InitFmt /\ [][NextFmt]_vars

(***************************************************************************)
(* add_crate_to_dependencies (manifest.rs:277-306)                         *)
(*                                                                         *)
(* The text of a manifest is a sequence of lines: table headers, key/value *)
(* lines whose value is an inline table, key/value lines with any other    *)
(* value, and text that is not TOML.  A DocumentMut is the sequence of its *)
(* tables, the root table first, each with its key/value lines.            *)
(***************************************************************************)
Header(name) == [line |-> "header", name |-> name, decl |-> <<>>, text |-> ""]

\* name = { key = value, ... }
Inline(name, decl) == [line |-> "inline", name |-> name, decl |-> decl, text |-> ""]

\* name = value, the value taken as written
Plain(name, text) == [line |-> "plain", name |-> name, decl |-> <<>>, text |-> text]

Garbage(text) == [line |-> "garbage", name |-> "", decl |-> <<>>, text |-> text]

TomlTable(name, entries) == [name |-> name, entries |-> entries]

EmptyDocument == <<TomlTable("", <<>>)>>

HasTable(doc, name) == \E i \in 2..Len(doc) : doc[i].name = name

TableIndex(doc, name) == CHOOSE i \in 2..Len(doc) : doc[i].name = name

HasKey(entries, key) == \E i \in 1..Len(entries) : entries[i].name = key

\* a header that defines a key twice is not valid TOML
HeaderClashes(doc, name) ==
    \/ HasTable(doc, name)
    \/ HasKey(doc[1].entries,
              IF name = "workspace.dependencies" THEN "workspace" ELSE name)
    \/ /\ name = "workspace.dependencies"
       /\ HasTable(doc, "workspace")
       /\ HasKey(doc[TableIndex(doc, "workspace")].entries, "dependencies")
    \/ /\ name = "workspace"
       /\ HasTable(doc, "workspace.dependencies")

\* str::parse::<DocumentMut>(), one line at a time
RECURSIVE ParseLines(_, _, _)
ParseLines(lines, i, doc) ==
    IF i > Len(lines)
    THEN [ok |-> TRUE, doc |-> doc]
    ELSE LET l == lines[i] IN
         CASE l.line = "garbage" -> [ok |-> FALSE, doc |-> EmptyDocument]
           [] l.line = "header" ->
                IF HeaderClashes(doc, l.name)
                THEN [ok |-> FALSE, doc |-> EmptyDocument]
                ELSE ParseLines(lines, i + 1, Append(doc, TomlTable(l.name, <<>>)))
           [] OTHER ->
                LET last == doc[Len(doc)] IN
                IF HasKey(last.entries, l.name)
                THEN [ok |-> FALSE, doc |-> EmptyDocument]
                ELSE ParseLines(lines, i + 1,
                        [doc EXCEPT ![Len(doc)].entries = Append(@, l)])

\* mutant: text that is not TOML is skipped
parse_SkippingGarbage(content) ==
    ParseLines(SelectSeq(content, LAMBDA l : l.line # "garbage"), 1, EmptyDocument)

parse(content) == ParseLines(content, 1, EmptyDocument)

\* DocumentMut::to_string(): the root keys, then each table under its header
RECURSIVE to_string(_)
to_string(doc) ==
    IF doc = <<>>
    THEN <<>>
    ELSE LET t == Head(doc) IN
         (IF t.name = "" THEN <<>> ELSE <<Header(t.name)>>)
         \o t.entries \o to_string(Tail(doc))

\* toml_edit::value(String): a basic string
Quoted(str) == "\"" \o str \o "\""

\* toml_edit::value(Array) of strings
RECURSIVE ArrayItems(_)
ArrayItems(features) ==
    IF features = <<>>
    THEN ""
    ELSE Quoted(Head(features))
         \o (IF Len(features) > 1 THEN ", " ELSE "")
         \o ArrayItems(Tail(features))

ArrayText(features) == "[" \o ArrayItems(features) \o "]"

\* ManifestDependencyOrigin (types.rs:40-45): the fields of the other
\* variants are empty
Origin(variant, url, branch, version, relative_path) ==
    [variant |-> variant, url |-> url, branch |-> branch, version |-> version,
     relative_path |-> relative_path]

\* the keys `match &dependency_config.origin` inserts
OriginKeys(origin) ==
    CASE origin.variant = "Workspace" -> << <<"workspace", "true">> >>
      [] origin.variant = "Git" ->
            << <<"git", Quoted(origin.url)>>, <<"branch", Quoted(origin.branch)>> >>
      [] origin.variant = "CratesIO" -> << <<"version", Quoted(origin.version)>> >>
      [] origin.variant = "Local" -> << <<"path", Quoted(origin.relative_path)>> >>

\* mutant: default-features is written whatever its value
DefaultFeaturesKey_Always(dependency_config) ==
    << <<"default-features",
         IF dependency_config.default_features THEN "true" ELSE "false">> >>

\* `if !dependency_config.default_features`
DefaultFeaturesKey(dependency_config) ==
    IF ~dependency_config.default_features
    THEN << <<"default-features", "false">> >>
    ELSE <<>>

\* `if !dependency_config.features.is_empty()`
FeaturesKey(dependency_config) ==
    IF dependency_config.features # <<>>
    THEN << <<"features", ArrayText(dependency_config.features)>> >>
    ELSE <<>>

\* `if dependency_config.optional`
OptionalKey(dependency_config) ==
    IF dependency_config.optional THEN << <<"optional", "true">> >> ELSE <<>>

\* the InlineTable dependency_declaration, in the order of its inserts
DependencyDeclaration(dependency_config) ==
    OriginKeys(dependency_config.origin)
    \o DefaultFeaturesKey(dependency_config)
    \o FeaturesKey(dependency_config)
    \o OptionalKey(dependency_config)

\* Table::insert: the value of an existing key is replaced where it stands,
\* a new key goes last
TableInsert(entries, item) ==
    IF HasKey(entries, item.name)
    THEN [i \in 1..Len(entries) |->
            IF entries[i].name = item.name THEN item ELSE entries[i]]
    ELSE Append(entries, item)

\* Table::insert of a table: the key it replaces in the parent goes away
RemoveKey(entries, key) == SelectSeq(entries, LAMBDA l : l.name # key)

add_dependency_to_dependencies_table(dependencies, dependency_name, dependency_config) ==
    TableInsert(dependencies,
                Inline(dependency_name, DependencyDeclaration(dependency_config)))

\* `Some(Item::Table(workspace)) = doc.get_mut("workspace")`: the table of a
\* [workspace] header, or the one a [workspace.dependencies] header implies
WorkspaceIsTable(doc) ==
    HasTable(doc, "workspace") \/ HasTable(doc, "workspace.dependencies")

\* the document after the if / else if / else of manifest.rs:283-301
AddToDocument(doc, dependency_name, dependency_config) ==
    LET fresh == add_dependency_to_dependencies_table(<<>>, dependency_name,
                                                      dependency_config)
        into(name) ==
            [doc EXCEPT ![TableIndex(doc, name)].entries =
                add_dependency_to_dependencies_table(@, dependency_name,
                                                     dependency_config)]
    IN  IF HasTable(doc, "dependencies")
        THEN into("dependencies")
        ELSE IF WorkspaceIsTable(doc)
             THEN IF HasTable(doc, "workspace.dependencies")
                  THEN into("workspace.dependencies")
                  ELSE Append(
                         [doc EXCEPT ![TableIndex(doc, "workspace")].entries =
                             RemoveKey(@, "dependencies")],
                         TomlTable("workspace.dependencies", fresh))
             ELSE Append([doc EXCEPT ![1].entries = RemoveKey(@, "dependencies")],
                         TomlTable("dependencies", fresh))

ErrTomlEdit == [kind |-> "Err", error |-> "TomlEdit"]

\* std::fs::read_to_string(manifest_path)
read_to_string(f) ==
    CASE f.access = "missing" -> [ok |-> FALSE, err |-> "NotFound"]
      [] f.access = "unreadable" -> [ok |-> FALSE, err |-> "PermissionDenied"]
      [] OTHER -> [ok |-> TRUE, err |-> ""]

\* the whole call: what it returns, what it tries to write, the file after
add_crate_to_dependencies(f, dependency_name, dependency_config) ==
    LET read == read_to_string(f)
        parsed == parse(f.content)
        written == to_string(AddToDocument(parsed.doc, dependency_name,
                                           dependency_config))
    IN  IF ~read.ok
        THEN [result |-> ErrIO(read.err), writes |-> <<>>, file |-> f]
        ELSE IF ~parsed.ok
        THEN [result |-> ErrTomlEdit, writes |-> <<>>, file |-> f]
        ELSE IF f.access # "readwrite"
        THEN [result |-> ErrIO("PermissionDenied"), writes |-> <<written>>, file |-> f]
        ELSE [result |-> Ok, writes |-> <<written>>,
              file |-> [f EXCEPT !.content = written]]

\* the manifests of the runs: every combination of a root key, a package,
\* a workspace and the two dependencies tables, and two texts that are not TOML
OldDeclaration == << <<"version", Quoted("0.9")>> >>

RootKeyChoices ==
    {<<>>,
     <<Plain("dependencies", "{ serde = \"0.9\" }")>>,
     <<Plain("workspace", "{ members = [] }")>>}

PackageChoices == {<<>>, <<Header("package"), Plain("name", Quoted("app"))>>}

WorkspaceChoices ==
    {<<>>,
     <<Header("workspace"), Plain("members", "[]")>>,
     <<Header("workspace"), Plain("dependencies", "{ serde = \"0.9\" }")>>}

WorkspaceDependenciesChoices ==
    {<<>>,
     <<Header("workspace.dependencies")>>,
     <<Header("workspace.dependencies"), Inline("serde", OldDeclaration)>>}

DependenciesChoices ==
    {<<>>,
     <<Header("dependencies")>>,
     <<Header("dependencies"), Inline("serde", OldDeclaration)>>}

ManifestTexts ==
    {r \o p \o w \o wd \o d :
        r \in RootKeyChoices, p \in PackageChoices, w \in WorkspaceChoices,
        wd \in WorkspaceDependenciesChoices, d \in DependenciesChoices}
    \cup {<<Garbage("use std::fs;")>>,
          <<Header("package"), Plain("name", Quoted("app")), Garbage("use std::fs;")>>}

Files ==
    {[access |-> "missing", content |-> <<>>]}
    \cup {[access |-> a, content |-> c] :
            a \in {"unreadable", "readonly", "readwrite"}, c \in ManifestTexts}

Origins ==
    {Origin("Workspace", "", "", "", ""),
     Origin("Git", "https://github.com/serde-rs/serde", "master", "", ""),
     Origin("CratesIO", "", "", "1.0", ""),
     Origin("Local", "", "", "", "../serde")}

FeatureLists == {<<>>, <<"derive">>, <<"std", "derive">>}

DependencyConfigs ==
    [origin : Origins, default_features : BOOLEAN,
     features : FeatureLists, optional : BOOLEAN]

DependencyNames == {"serde", "tokio"}

InitDeps ==
    /\ file \in Files
    /\ dependency \in [name : DependencyNames, config : DependencyConfigs]
    /\ writes = <<>>
    /\ Idle({"parsing", "syn", "fmt", "find"})
    /\ pc = "start"
    /\ result = NoResult

AddCrateToDependencies ==
    /\ pc = "start"
    /\ LET call == add_crate_to_dependencies(file, dependency.name, dependency.config)
       IN  /\ result' = call.result
           /\ writes' = call.writes
           /\ file' = call.file
    /\ pc' = "returned"
    /\ UNCHANGED <<parsingVars, synVars, fmtVars, findVars, dependency>>

SpecDeps == InitDeps /\ [][AddCrateToDependencies]_vars

(***************************************************************************)
(* find_innermost_manifest (manifest.rs:55-78) and find_workspace_manifest *)
(* (manifest.rs:128-149)                                                   *)
(*                                                                         *)
(* The file system is a chain of directories, the root at depth 1, each    *)
(* holding the next and a file main.rs.  A path is the sequence of its     *)
(* components as Path::components() yields them.                           *)
(***************************************************************************)
DirNames == <<"/", "ws", "crate", "src", "bin", "deeper">>

RootDir == "/"

CurDir == "."

ParentDir == ".."

FileName == "main.rs"

\* what Manifest::from_path finds at <directory>/Cargo.toml
ManifestKinds ==
    {"missing", "invalid", "bare", "package", "workspace", "package_workspace"}

\* Path::join("Cargo.toml")
JoinCargoToml(p) == Append(p, "Cargo.toml")

\* Path::parent(): None for the empty path and for the root, else the path
\* without its last component
HasParent(p) == p # <<>> /\ p[Len(p)] # RootDir

Parent(p) == SubSeq(p, 1, Len(p) - 1)

\* the directory a path names for the operating system: its depth, 0 when
\* there is none, and whether the path names the file in it
RECURSIVE Walk(_, _, _)
Walk(p, i, at) ==
    IF i > Len(p) \/ at.dir = 0
    THEN at
    ELSE LET c == p[i] IN
         CASE at.file -> [dir |-> 0, file |-> FALSE]
           [] c = RootDir -> Walk(p, i + 1, [at EXCEPT !.dir = 1])
           [] c = CurDir -> Walk(p, i + 1, at)
           [] c = ParentDir ->
                Walk(p, i + 1, [at EXCEPT !.dir = IF @ > 1 THEN @ - 1 ELSE 1])
           [] c = FileName -> Walk(p, i + 1, [at EXCEPT !.file = TRUE])
           [] at.dir < MaxDepth /\ c = DirNames[at.dir + 1] ->
                Walk(p, i + 1, [at EXCEPT !.dir = @ + 1])
           [] OTHER -> [dir |-> 0, file |-> FALSE]

Resolve(p) == Walk(p, 1, [dir |-> cwd, file |-> FALSE])

\* Manifest::from_path(&cargo_toml_path)
from_path(cargo_toml_path) ==
    LET at == Resolve(Parent(cargo_toml_path)) IN
    IF at.dir = 0 \/ at.file \/ manifests[at.dir] \in {"missing", "invalid"}
    THEN [ok |-> FALSE, package |-> FALSE, workspace |-> FALSE]
    ELSE [ok |-> TRUE,
          package |-> manifests[at.dir] \in {"package", "package_workspace"},
          workspace |-> manifests[at.dir] \in {"workspace", "package_workspace"}]

\* `Ok(manifest) if manifest.package.is_some() || manifest.workspace.is_some()`
InnermostGuard(m) == m.ok /\ (m.package \/ m.workspace)

\* `Ok(manifest) if manifest.workspace.is_some()`
WorkspaceGuard(m) == m.ok /\ m.workspace

Some(p) == [kind |-> "Some", path |-> p]

None == [kind |-> "None", path |-> <<>>]

\* `while let Some(parent) = path.parent()`
RECURSIVE SearchParents(_, _)
SearchParents(p, workspace_only) ==
    IF ~HasParent(p)
    THEN None
    ELSE LET cargo_toml_path == JoinCargoToml(Parent(p))
             m == from_path(cargo_toml_path)
         IN  IF (IF workspace_only THEN WorkspaceGuard(m) ELSE InnermostGuard(m))
             THEN Some(cargo_toml_path)
             ELSE SearchParents(Parent(p), workspace_only)

find_innermost_manifest(p) ==
    IF InnermostGuard(from_path(JoinCargoToml(p)))
    THEN Some(JoinCargoToml(p))
    ELSE SearchParents(p, FALSE)

find_workspace_manifest(p) ==
    IF WorkspaceGuard(from_path(JoinCargoToml(p)))
    THEN Some(JoinCargoToml(p))
    ELSE SearchParents(p, TRUE)

\* the paths of the runs: absolute, or relative to the current directory
\* with or without ./ and ../ in front, to a directory or to its file
Below(from, to) == [i \in 1..(to - from) |-> DirNames[from + i]]

AbsoluteDirs == {<<RootDir>> \o Below(1, k) : k \in 1..MaxDepth}

RelativePrefixes == {<<>>, <<CurDir>>, <<ParentDir>>, <<ParentDir, ParentDir>>}

Ups(prefix) == Len(SelectSeq(prefix, LAMBDA c : c = ParentDir))

RelativeDirs(c) ==
    {prefix \o Below(c - Ups(prefix), k) :
        prefix \in {q \in RelativePrefixes : c - Ups(q) >= 1},
        k \in 1..MaxDepth}

Paths(c) ==
    LET dirs == {d \in AbsoluteDirs \cup RelativeDirs(c) :
                    Walk(d, 1, [dir |-> c, file |-> FALSE]).dir # 0}
    IN  dirs \cup {Append(d, FileName) : d \in dirs}

InitFind ==
    /\ manifests \in [1..MaxDepth -> ManifestKinds]
    /\ cwd \in 1..MaxDepth
    /\ path \in Paths(cwd)
    /\ Idle({"parsing", "syn", "fmt", "manifest"})
    /\ pc = "start"
    /\ result = NoResult

FindInnermostManifest ==
    /\ pc = "start"
    /\ result' = find_innermost_manifest(path)
    /\ pc' = "find_innermost_manifest"
    /\ UNCHANGED <<parsingVars, synVars, fmtVars, depsVars, findVars>>

FindWorkspaceManifest ==
    /\ pc = "start"
    /\ result' = find_workspace_manifest(path)
    /\ pc' = "find_workspace_manifest"
    /\ UNCHANGED <<parsingVars, synVars, fmtVars, depsVars, findVars>>

NextFind == FindInnermostManifest \/ FindWorkspaceManifest

SpecFind == InitFind /\ [][NextFind]_vars

(***************************************************************************)
(* prefix_with_current_dir (paths.rs:22-35)                                *)
(*                                                                         *)
(* A path as written is a leading separator or none and the segments       *)
(* between the separators: "my//path/." has the segments my, (empty),      *)
(* path and the dot.                                                       *)
(***************************************************************************)
Written(absolute, segments) == [absolute |-> absolute, segments |-> segments]

\* Path::components(): the root, then the segments without the empty ones
\* and without the dots that are not in front
RECURSIVE ComponentsFrom(_, _, _)
ComponentsFrom(segments, i, absolute) ==
    IF i > Len(segments)
    THEN <<>>
    ELSE LET seg == segments[i]
             rest == ComponentsFrom(segments, i + 1, absolute)
         IN  IF seg = "" \/ (seg = CurDir /\ (i > 1 \/ absolute))
             THEN rest
             ELSE <<seg>> \o rest

components(p) ==
    (IF p.absolute THEN <<RootDir>> ELSE <<>>)
    \o ComponentsFrom(p.segments, 1, p.absolute)

\* Component::Normal(_)
IsNormal(component) == component \notin {RootDir, CurDir, ParentDir}

\* Path::join: an absolute path replaces the base
join(base, p) ==
    IF p.absolute
    THEN p
    ELSE Written(base.absolute, base.segments \o p.segments)

\* mutant: every path that has components is prefixed
StartsWithNormal_Any(comps) == TRUE

\* `if let Component::Normal(_) = components[0]`
StartsWithNormal(comps) == IsNormal(comps[1])

prefix_with_current_dir(p) ==
    LET comps == components(p) IN
    IF comps # <<>> /\ StartsWithNormal(comps)
    THEN join(Written(FALSE, <<CurDir>>), p)
    ELSE p

Segments == {"my", "path", CurDir, ParentDir, ""}

RECURSIVE SegmentsUpTo(_)
SegmentsUpTo(n) ==
    IF n = 0
    THEN {<<>>}
    ELSE LET shorter == SegmentsUpTo(n - 1) IN
         shorter \cup {Append(q, seg) : q \in shorter, seg \in Segments}

WrittenPaths == {Written(a, q) : a \in BOOLEAN, q \in SegmentsUpTo(MaxSegments)}

InitPaths ==
    /\ path \in WrittenPaths
    /\ manifests = <<>>
    /\ cwd = 0
    /\ Idle({"parsing", "syn", "fmt", "manifest"})
    /\ pc = "start"
    /\ result = NoResult

PrefixWithCurrentDir ==
    /\ pc = "start"
    /\ result' = [kind |-> "PathBuf", path |-> prefix_with_current_dir(path)]
    /\ pc' = "prefix_with_current_dir"
    /\ UNCHANGED <<parsingVars, synVars, fmtVars, depsVars, findVars>>

SpecPaths == InitPaths /\ [][PrefixWithCurrentDir]_vars

(***************************************************************************)
(* extract_generics (parsing.rs:87-140)                                    *)
(*                                                                         *)
(* A generic parameter has a kind, an identifier (the lifetime for a       *)
(* lifetime parameter), its bounds, the type of a const parameter and a    *)
(* default.  parse_quote! goes through tokens: what is interpolated is     *)
(* written out and parsed again.                                           *)
(***************************************************************************)
TypeParam(ident, bounds, default) ==
    [kind |-> "Type", ident |-> ident, bounds |-> bounds, ty |-> "", default |-> default]

LifetimeParam(lifetime, bounds) ==
    [kind |-> "Lifetime", ident |-> lifetime, bounds |-> bounds, ty |-> "", default |-> ""]

ConstParam(ident, ty) ==
    [kind |-> "Const", ident |-> ident, bounds |-> <<>>, ty |-> ty, default |-> ""]

Lifetimes == {"'a", "'b"}

\* the tokens of a Punctuated<_, Token![+]>
RECURSIVE BoundsTokens(_)
BoundsTokens(bounds) ==
    IF bounds = <<>>
    THEN <<>>
    ELSE <<Head(bounds)>>
         \o (IF Len(bounds) > 1 THEN <<"+">> ELSE <<>>)
         \o BoundsTokens(Tail(bounds))

\* the bounds read back from tokens, every other one
RECURSIVE ParseBounds(_, _)
ParseBounds(tokens, i) ==
    IF i > Len(tokens)
    THEN <<>>
    ELSE <<tokens[i]>> \o ParseBounds(tokens, i + 2)

\* parse of a WherePredicate: a lifetime in front makes a lifetime predicate
ParsePredicate(tokens) ==
    [kind |-> IF tokens[1] \in Lifetimes THEN "Lifetime" ELSE "Type",
     bounded |-> tokens[1],
     bounds |-> ParseBounds(tokens, 3)]

\* parse_quote! {#ident: #bounds}
QuotePredicate(ident, bounds) ==
    ParsePredicate(<<ident, ":">> \o BoundsTokens(bounds))

\* GenericParam::Type(parse_quote! { #ident })
QuoteTypeParam(ident) == TypeParam(ident, <<>>, "")

\* GenericParam::Lifetime(parse_quote! {#lifetime_dec})
QuoteLifetimeParam(lifetime) == LifetimeParam(lifetime, <<>>)

\* what the closure pushes to where_clauses, parameter after parameter
RECURSIVE PushedPredicates(_)
PushedPredicates(params) ==
    IF params = <<>>
    THEN <<>>
    ELSE LET item == Head(params) IN
         (IF item.kind \in {"Type", "Lifetime"} /\ item.bounds # <<>>
          THEN <<QuotePredicate(item.ident, item.bounds)>>
          ELSE <<>>)
         \o PushedPredicates(Tail(params))

\* mutant: the identifier of a const parameter is its whole declaration
IdentOf_ConstDeclared(item) ==
    CASE item.kind = "Type" -> QuoteTypeParam(item.ident)
      [] item.kind = "Lifetime" -> QuoteLifetimeParam(item.ident)
      [] item.kind = "Const" -> item

\* what the closure pushes to generics_idents
IdentOf(item) ==
    CASE item.kind = "Type" -> QuoteTypeParam(item.ident)
      [] item.kind = "Lifetime" -> QuoteLifetimeParam(item.ident)
      [] item.kind = "Const" -> QuoteTypeParam(item.ident)

\* what the closure returns, collected into generics_declarations
DeclarationOf(item) ==
    CASE item.kind = "Type" -> QuoteTypeParam(item.ident)
      [] item.kind = "Lifetime" -> QuoteLifetimeParam(item.ident)
      [] item.kind = "Const" -> item

SomeWhere(predicates) == [some |-> TRUE, predicates |-> predicates]

NoWhere == [some |-> FALSE, predicates |-> <<>>]

\* mutant: the predicates of the bounds go in front of the where clause's own
ExtendPredicates_InFront(predicates, where_clauses) == where_clauses \o predicates

\* where_clause.predicates.extend(where_clauses.clone())
ExtendPredicates(predicates, where_clauses) == predicates \o where_clauses

\* generics.where_clause.clone().map(..).or_else(..)
WhereClauseOf(where_clause, where_clauses) ==
    IF where_clause.some
    THEN SomeWhere(ExtendPredicates(where_clause.predicates, where_clauses))
    ELSE IF where_clauses # <<>>
         THEN SomeWhere(where_clauses)
         ELSE NoWhere

extract_generics(generics) ==
    LET where_clauses == PushedPredicates(generics.params) IN
    [kind |-> "tuple",
     declarations |-> [i \in 1..Len(generics.params) |-> DeclarationOf(generics.params[i])],
     idents |-> [i \in 1..Len(generics.params) |-> IdentOf(generics.params[i])],
     where_clause |-> WhereClauseOf(generics.where_clause, where_clauses)]

GenericParams ==
    {LifetimeParam("'a", <<>>), LifetimeParam("'b", <<"'a">>),
     TypeParam("T", <<>>, ""), TypeParam("T", <<"Config", "Clone">>, ""),
     TypeParam("D", <<"Debug">>, "u8"), ConstParam("N", "usize")}

RECURSIVE ParamsUpTo(_)
ParamsUpTo(n) ==
    IF n = 0
    THEN {<<>>}
    ELSE LET shorter == ParamsUpTo(n - 1) IN
         shorter \cup {Append(q, item) : q \in shorter, item \in GenericParams}

WhereClauses ==
    {NoWhere, SomeWhere(<<>>),
     SomeWhere(<<[kind |-> "Type", bounded |-> "D", bounds |-> <<"From<String>">>]>>)}

InitGenerics ==
    /\ input \in [kind : {"Generics"}, params : ParamsUpTo(MaxParams),
                  where_clause : WhereClauses]
    /\ Idle({"parsing", "fmt", "manifest", "find"})
    /\ pc = "start"
    /\ result = NoResult

ExtractGenerics ==
    /\ pc = "start"
    /\ result' = extract_generics(input)
    /\ pc' = "extract_generics"
    /\ UNCHANGED <<parsingVars, synVars, fmtVars, depsVars, findVars>>

SpecGenerics == InitGenerics /\ [][ExtractGenerics]_vars

(***************************************************************************)
(* tt_without_docs (parsing/attrs_mut.rs:71-77) over Item                  *)
(*                                                                         *)
(* An item is its variant, the attributes the variant holds in its attrs   *)
(* field and its remaining tokens; Item::Verbatim holds tokens only, the   *)
(* attributes written in them included.                                    *)
(***************************************************************************)
Attribute(style, segments, meta) ==
    [style |-> style, segments |-> segments, meta |-> meta]

\* /// text, #[doc(hidden)], #![doc = ".."], #[some_attr], #[my::doc]
Attributes ==
    {Attribute("Outer", <<"doc">>, "= \" text\""),
     Attribute("Outer", <<"doc">>, "(hidden)"),
     Attribute("Inner", <<"doc">>, "= \"inner\""),
     Attribute("Outer", <<"some_attr">>, ""),
     Attribute("Outer", <<"my", "doc">>, "")}

SynItem(variant, attrs, tokens) ==
    [kind |-> "Item", variant |-> variant, attrs |-> attrs, tokens |-> tokens]

\* the variants `impl AttrsMut for Item` matches before `_ => None`
VariantsWithAttrs ==
    {"Const", "Enum", "ExternCrate", "Fn", "ForeignMod", "Impl", "Macro", "Mod",
     "Static", "Struct", "Trait", "TraitAlias", "Type", "Union", "Use"}

\* attrs_mut().is_some()
HasAttrsMut(item) == item.variant \in VariantsWithAttrs

\* mutant: an attribute is a doc when the last segment of its path is doc
IsDoc_LastSegment(attr) == attr.segments[Len(attr.segments)] = "doc"

\* attr.path().is_ident("doc"): a path of the one segment doc
IsDoc(attr) == attr.segments = <<"doc">>

\* attrs.retain(|attr| !attr.path().is_ident("doc"))
RetainNonDocs(attrs) == SelectSeq(attrs, LAMBDA attr : ~IsDoc(attr))

tt_without_docs(item) ==
    LET output == item IN
    IF HasAttrsMut(output)
    THEN [output EXCEPT !.attrs = RetainNonDocs(@)]
    ELSE output

RECURSIVE AttrsUpTo(_)
AttrsUpTo(n) ==
    IF n = 0
    THEN {<<>>}
    ELSE LET shorter == AttrsUpTo(n - 1) IN
         shorter \cup {Append(q, attr) : q \in shorter, attr \in Attributes}

ItemVariants == {"Struct", "Fn", "Mod"}

Items ==
    {SynItem(v, attrs, <<>>) : v \in ItemVariants, attrs \in AttrsUpTo(MaxAttrs)}
    \cup {SynItem("Verbatim", <<>>, attrs) : attrs \in AttrsUpTo(MaxAttrs)}

InitItem ==
    /\ input \in Items
    /\ Idle({"parsing", "fmt", "manifest", "find"})
    /\ pc = "start"
    /\ result = NoResult

TtWithoutDocs ==
    /\ pc = "start"
    /\ result' = tt_without_docs(input)
    /\ pc' = "tt_without_docs"
    /\ UNCHANGED <<parsingVars, synVars, fmtVars, depsVars, findVars>>

SpecItem == InitItem /\ [][TtWithoutDocs]_vars

(***************************************************************************)
(* What the claims speak of: occurrences of a needle in a haystack.        *)
(***************************************************************************)
\* the needle's trees equal the haystack's from offset i on, pairwise
MatchesAt(needle, haystack, i) ==
    /\ i + Len(needle) <= Len(haystack)
    /\ \A k \in 0..(Len(needle) - 1) :
          syntactic_token_tree_compare(At(haystack, i + k), At(needle, k))

\* the needle is a contiguous run of the sequence itself
OccursAtTopLevel(needle, haystack) ==
    \E i \in 0..Len(haystack) : MatchesAt(needle, haystack, i)

RECURSIVE OccursInNestedGroup(_, _)
\* the needle is a contiguous run of a group nested in the sequence, at any depth
OccursInNestedGroup(needle, haystack) ==
    \E k \in 1..Len(haystack) :
        /\ haystack[k].variant = "Group"
        /\ \/ OccursAtTopLevel(needle, haystack[k].stream)
           \/ OccursInNestedGroup(needle, haystack[k].stream)

Called(f) == pc = f

(***************************************************************************)
(* C1: contains returns true whenever the non-empty needle is a            *)
(* contiguous run of the haystack's top level.  The code resumes a failed  *)
(* alignment at the failing offset and so steps over an occurrence that    *)
(* overlaps it: needle x x y, haystack x x x y.                            *)
(***************************************************************************)
C1_TopLevelOccurrenceFound ==
    (Called("contains") /\ small_stream # <<>>
        /\ OccursAtTopLevel(small_stream, large_stream))
    => result = "true"

(***************************************************************************)
(* C2: contains returns true whenever the non-empty needle is a            *)
(* contiguous run of a group nested in the haystack, also when a level     *)
(* above it is shorter than the needle.  The code returns false at a       *)
(* level shorter than the needle without searching its groups.             *)
(***************************************************************************)
C2_NestedOccurrenceFound ==
    (Called("contains") /\ small_stream # <<>>
        /\ OccursInNestedGroup(small_stream, large_stream))
    => result = "true"

(***************************************************************************)
(* C3: contains is total: it returns a boolean for every needle and        *)
(* haystack, no index read being out of bounds.  The code reads            *)
(* large_tt[j] past the end when a prefix of the needle matches the tail   *)
(* of the haystack.                                                        *)
(***************************************************************************)
C3_ContainsTotal ==
    Called("contains") => result \in {"true", "false"}

(***************************************************************************)
(* C4: an empty needle is contained in every haystack, the empty one       *)
(* included.                                                               *)
(***************************************************************************)
C4_EmptyNeedleContained ==
    (Called("contains") /\ small_stream = <<>>) => result = "true"

C4_Witness ==
    /\ Called("contains")
    /\ small_stream = <<>>
    /\ large_stream # <<>>
    /\ result = "true"

(***************************************************************************)
(* C5: containment is non-strict: two streams that stream_compare finds    *)
(* equal contain each other.                                               *)
(***************************************************************************)
C5_EqualStreamsContainEachOther ==
    (Called("stream_compare") /\ result = "true")
    => /\ syntactic_token_stream_contains(token1.stream, token2.stream) = "true"
       /\ syntactic_token_stream_contains(token2.stream, token1.stream) = "true"

\* two equal streams that differ in a punctuation's spacing
C5_Witness ==
    /\ Called("stream_compare")
    /\ result = "true"
    /\ token1.stream # token2.stream
    /\ Len(token1.stream) = 2
    /\ syntactic_token_stream_contains(token1.stream, token2.stream) = "true"

(***************************************************************************)
(* C6: containment is not symmetric: when a is contained in b and has      *)
(* fewer top-level trees than b, b is not contained in a.                  *)
(***************************************************************************)
C6_LongerNotContainedInShorter ==
    (Called("contains") /\ result = "true"
        /\ Len(small_stream) < Len(large_stream))
    => syntactic_token_stream_contains(large_stream, small_stream) = "false"

\* a needle of two trees found in a longer haystack
C6_Witness ==
    /\ Called("contains")
    /\ result = "true"
    /\ Len(small_stream) = 2
    /\ Len(small_stream) < Len(large_stream)
    /\ syntactic_token_stream_contains(large_stream, small_stream) = "false"

(***************************************************************************)
(* C7: two groups are equal iff their delimiters are the same, they have   *)
(* as many children and the children are equal pairwise, in order.         *)
(***************************************************************************)
C7_GroupEquality ==
    (Called("tree_compare") /\ token1.variant = "Group" /\ token2.variant = "Group")
    => (result = "true"
        <=> /\ token1.delimiter = token2.delimiter
            /\ Len(token1.stream) = Len(token2.stream)
            /\ \A k \in 1..Len(token1.stream) :
                  k <= Len(token2.stream)
                  /\ syntactic_token_tree_compare(token1.stream[k], token2.stream[k]))

\* groups of the same children and different delimiters are unequal
C7_Witness ==
    /\ Called("tree_compare")
    /\ token1.variant = "Group" /\ token2.variant = "Group"
    /\ token1.stream = token2.stream
    /\ token1.stream # <<>>
    /\ token1.delimiter # token2.delimiter
    /\ result = "false"

(***************************************************************************)
(* C8: two leaves of the same variant are equal iff their text is the      *)
(* same: the identifier's text, the punctuation's character whatever the   *)
(* spacing, the literal's rendering whatever its declared sub-kind.        *)
(***************************************************************************)
TokenText(t) ==
    CASE t.variant = "Ident" -> t.sym
      [] t.variant = "Punct" -> t.ch
      [] t.variant = "Literal" -> LiteralToString(t)

C8_LeafEqualityByText ==
    (Called("tree_compare") /\ token1.variant = token2.variant
        /\ token1.variant # "Group")
    => (result = "true" <=> TokenText(token1) = TokenText(token2))

\* the same punctuation character with two spacings
C8_Witness ==
    /\ Called("tree_compare")
    /\ token1.variant = "Punct" /\ token2.variant = "Punct"
    /\ token1.spacing # token2.spacing
    /\ result = "true"

(***************************************************************************)
(* C9: two token trees of different variants are never equal; a token is   *)
(* never equal to a group that wraps only that token, whatever the         *)
(* delimiter.                                                              *)
(***************************************************************************)
C9_CrossVariantUnequal ==
    (Called("tree_compare") /\ token1.variant # token2.variant)
    => result = "false"

\* a None-delimited group of one token against that token
C9_Witness ==
    /\ Called("tree_compare")
    /\ token1.variant = "Group"
    /\ token1.delimiter = "None"
    /\ token1.stream = <<token2>>
    /\ result = "false"

(***************************************************************************)
(* C10: syntactic equality is reflexive: a token tree of any depth equals  *)
(* itself, and a stream equals itself.                                     *)
(***************************************************************************)
C10_Reflexive ==
    /\ (Called("tree_compare") /\ token1 = token2) => result = "true"
    /\ (Called("stream_compare") /\ token1.stream = token2.stream) => result = "true"

\* a group that holds a group, compared with itself
C10_Witness ==
    /\ Called("tree_compare")
    /\ token1 = token2
    /\ token1.variant = "Group"
    /\ \E k \in 1..Len(token1.stream) : token1.stream[k].variant = "Group"
    /\ result = "true"

(***************************************************************************)
(* C11: comparisons are order-sensitive.  As claimed: a group (a stream)   *)
(* whose children are permuted by a permutation other than the identity    *)
(* never equals the original.  A permutation that only exchanges equal     *)
(* children leaves the group equal to the original, so the statement that  *)
(* holds names a child that the permutation replaces by an unequal one.    *)
(***************************************************************************)
\* the permutations of 1..n
Perms(n) == {p \in [1..n -> 1..n] : \A a, b \in 1..n : p[a] = p[b] => a = b}

Permuted(tt, p) == [k \in 1..Len(tt) |-> tt[p[k]]]

IsIdentity(p) == \A k \in DOMAIN p : p[k] = k

\* p puts in some position a child unequal to the one that was there
MovesUnequal(tt, p) ==
    \E k \in 1..Len(tt) : ~syntactic_token_tree_compare(tt[k], tt[p[k]])

BothGroups == token1.variant = "Group" /\ token2.variant = "Group"

\* the statement as claimed
C11_AnyPermutationUnequal ==
    /\ (Called("tree_compare") /\ BothGroups
           /\ token1.delimiter = token2.delimiter
           /\ \E p \in Perms(Len(token1.stream)) :
                 ~IsIdentity(p) /\ token2.stream = Permuted(token1.stream, p))
       => result = "false"
    /\ (Called("stream_compare")
           /\ \E p \in Perms(Len(token1.stream)) :
                 ~IsIdentity(p) /\ token2.stream = Permuted(token1.stream, p))
       => result = "false"

C11_OrderSensitive ==
    /\ (Called("tree_compare") /\ BothGroups
           /\ token1.delimiter = token2.delimiter
           /\ \E p \in Perms(Len(token1.stream)) :
                 /\ token2.stream = Permuted(token1.stream, p)
                 /\ MovesUnequal(token1.stream, p))
       => result = "false"
    /\ (Called("stream_compare")
           /\ \E p \in Perms(Len(token1.stream)) :
                 /\ token2.stream = Permuted(token1.stream, p)
                 /\ MovesUnequal(token1.stream, p))
       => result = "false"

\* two unequal children exchanged
C11_Witness ==
    /\ Called("tree_compare") /\ BothGroups
    /\ token1.delimiter = token2.delimiter
    /\ Len(token1.stream) = 2
    /\ token2.stream = <<token1.stream[2], token1.stream[1]>>
    /\ ~syntactic_token_tree_compare(token1.stream[1], token1.stream[2])
    /\ result = "false"

(***************************************************************************)
(* C12: two streams are equal iff they have as many top-level token trees  *)
(* and the trees are equal pairwise, in order; two empty streams are       *)
(* equal, and a stream never equals a proper prefix of itself.             *)
(***************************************************************************)
C12_StreamEquality ==
    Called("stream_compare")
    => (result = "true"
        <=> /\ Len(token1.stream) = Len(token2.stream)
            /\ \A k \in 1..Len(token1.stream) :
                  k <= Len(token2.stream)
                  /\ syntactic_token_tree_compare(token1.stream[k], token2.stream[k]))

\* a stream against a proper prefix of it
C12_Witness ==
    /\ Called("stream_compare")
    /\ Len(token2.stream) = 1
    /\ Len(token1.stream) = 2
    /\ syntactic_token_tree_compare(token1.stream[1], token2.stream[1])
    /\ result = "false"

(***************************************************************************)
(* C13: format_dir runs `cargo +nightly fmt --all` first, runs             *)
(* `cargo fmt --all` at most once and only after the first command exited  *)
(* unsuccessfully, and returns Ok(()) iff the last command it ran exited   *)
(* successfully.                                                           *)
(***************************************************************************)
ExitedOk(out) == out.kind = "Exit" /\ out.success

ExitedBadly(out) == out.kind = "Exit" /\ ~out.success

C13_PrimaryThenFallback ==
    /\ Len(commands) <= 2
    /\ pc # "start" => Len(commands) >= 1
    /\ Len(commands) >= 1 => commands[1].cmd = NightlyFmt
    /\ Len(commands) = 2
          => commands[2].cmd = StableFmt /\ ExitedBadly(commands[1].out)
    /\ pc = "returned"
          => (result = Ok <=> ExitedOk(commands[Len(commands)].out))

\* the first command failed, the fallback succeeded, Ok is returned
C13_Witness ==
    /\ pc = "returned"
    /\ Len(commands) = 2
    /\ ExitedBadly(commands[1].out)
    /\ ExitedOk(commands[2].out)
    /\ result = Ok

(***************************************************************************)
(* C14: when both commands run and exit unsuccessfully, format_dir         *)
(* returns Err(Error::Descriptive(msg)) with msg the standard error of     *)
(* `cargo fmt --all`, not that of `cargo +nightly fmt --all`.              *)
(***************************************************************************)
C14_FallbackStderrSurfaced ==
    (pc = "returned" /\ Len(commands) = 2
        /\ ExitedBadly(commands[1].out) /\ ExitedBadly(commands[2].out))
    => result = ErrDescriptive(commands[2].out.stderr)

\* the two commands failed with different texts
C14_Witness ==
    /\ pc = "returned"
    /\ Len(commands) = 2
    /\ ExitedBadly(commands[1].out) /\ ExitedBadly(commands[2].out)
    /\ commands[1].out.stderr # commands[2].out.stderr
    /\ commands[1].out.stderr # ""
    /\ result = ErrDescriptive(commands[2].out.stderr)

(***************************************************************************)
(* C15: when the first command cannot be started (an I/O error),           *)
(* format_dir returns Err(Error::IO) carrying that error and never runs    *)
(* the fallback, with or without the nightly formatter installed.          *)
(***************************************************************************)
C15_IoErrorNoFallback ==
    (Len(commands) >= 1 /\ commands[1].out.kind = "Io")
    => /\ Len(commands) = 1
       /\ pc \in {"primary_done", "returned"}
       /\ pc = "returned" => result = ErrIO(commands[1].out.io)

\* the I/O error returned without the nightly formatter installed
C15_Witness ==
    /\ pc = "returned"
    /\ ~nightly
    /\ commands = <<[cmd |-> NightlyFmt, out |-> IoError("NotFound")]>>
    /\ result = ErrIO("NotFound")

(***************************************************************************)
(* C16: add_crate_to_dependencies adds the dependency to the top-level     *)
(* dependencies table of a crate manifest and to workspace.dependencies    *)
(* of a workspace manifest (one that has a workspace table), creating the  *)
(* table in the matching place when it does not exist; an empty manifest   *)
(* counts as a crate manifest.                                             *)
(***************************************************************************)
HasWorkspaceTable(doc) ==
    HasTable(doc, "workspace") \/ HasTable(doc, "workspace.dependencies")

DeclaredIn(doc, name) ==
    /\ HasTable(doc, name)
    /\ \E i \in 1..Len(doc[TableIndex(doc, name)].entries) :
          doc[TableIndex(doc, name)].entries[i]
              = Inline(dependency.name, DependencyDeclaration(dependency.config))

EntriesOf(doc, name) ==
    IF HasTable(doc, name) THEN doc[TableIndex(doc, name)].entries ELSE <<>>

AddedOnlyTo(before, after, name, other) ==
    /\ DeclaredIn(after, name)
    /\ EntriesOf(after, other) = EntriesOf(before, other)

C16_TableByManifestKind ==
    [][(pc' = "returned" /\ result' = Ok)
        => LET before == parse(file.content).doc
               after == parse(file'.content).doc
           IN  IF HasWorkspaceTable(before)
               THEN AddedOnlyTo(before, after, "workspace.dependencies", "dependencies")
               ELSE AddedOnlyTo(before, after, "dependencies", "workspace.dependencies")]_vars

(***************************************************************************)
(* C17: add_crate_to_dependencies returns Err(Error::IO) when the manifest *)
(* cannot be read, Err(Error::TomlEdit) when its content is not valid      *)
(* TOML, Err(Error::IO) when the file cannot be overwritten; after a read  *)
(* or parse failure nothing was written and the file is as it was.         *)
(***************************************************************************)
Unreadable(f) == f.access \in {"missing", "unreadable"}

NotToml(content) == \E i \in 1..Len(content) : content[i].line = "garbage"

C17_Failures ==
    [][pc' = "returned"
        => /\ Unreadable(file)
                => /\ result'.kind = "Err" /\ result'.error = "IO"
                   /\ writes' = <<>>
                   /\ file' = file
           /\ (~Unreadable(file) /\ NotToml(file.content))
                => result' = ErrTomlEdit
           /\ result' = ErrTomlEdit
                => writes' = <<>> /\ file' = file
           /\ (file.access = "readonly" /\ result' # ErrTomlEdit)
                => /\ result'.kind = "Err" /\ result'.error = "IO"
                   /\ Len(writes') = 1]_vars

\* a file that is not TOML was refused and left alone
C17_Witness ==
    /\ pc = "returned"
    /\ file = [access |-> "readwrite", content |-> <<Garbage("use std::fs;")>>]
    /\ result = ErrTomlEdit
    /\ writes = <<>>

(***************************************************************************)
(* C18: the entry written is an inline table holding, in this order, the   *)
(* origin key(s) (workspace = true | git then branch | version | path),    *)
(* default-features = false iff default_features is false, features (in    *)
(* the given order) iff the list is not empty, optional = true iff         *)
(* optional is true, and no other key.                                     *)
(***************************************************************************)
ExpectedOrigin(origin) ==
    IF origin.variant = "Workspace" THEN << <<"workspace", "true">> >>
    ELSE IF origin.variant = "Git"
         THEN << <<"git", "\"" \o origin.url \o "\"">>,
                 <<"branch", "\"" \o origin.branch \o "\"">> >>
    ELSE IF origin.variant = "CratesIO"
         THEN << <<"version", "\"" \o origin.version \o "\"">> >>
    ELSE << <<"path", "\"" \o origin.relative_path \o "\"">> >>

ExpectedFeatures(features) ==
    IF Len(features) = 1 THEN "[\"" \o features[1] \o "\"]"
    ELSE "[\"" \o features[1] \o "\", \"" \o features[2] \o "\"]"

ExpectedEntry(config) ==
    ExpectedOrigin(config.origin)
    \o (IF config.default_features THEN <<>> ELSE << <<"default-features", "false">> >>)
    \o (IF config.features = <<>> THEN <<>>
        ELSE << <<"features", ExpectedFeatures(config.features)>> >>)
    \o (IF config.optional THEN << <<"optional", "true">> >> ELSE <<>>)

NewLines(old, new) ==
    {new[i] : i \in {j \in 1..Len(new) :
        new[j].line # "header" /\ \A k \in 1..Len(old) : old[k] # new[j]}}

C18_EntryLayout ==
    [][(pc' = "returned" /\ result' = Ok)
        => NewLines(file.content, file'.content)
             = {Inline(dependency.name, ExpectedEntry(dependency.config))}]_vars

\* git origin, no default features, two features, optional: all five keys
C18_Witness ==
    /\ pc = "returned"
    /\ result = Ok
    /\ dependency.config.origin.variant = "Git"
    /\ ~dependency.config.default_features
    /\ dependency.config.features = <<"std", "derive">>
    /\ dependency.config.optional
    /\ \E i \in 1..Len(file.content) :
          /\ file.content[i].line = "inline"
          /\ file.content[i].name = dependency.name
          /\ Len(file.content[i].decl) = 5
          /\ file.content[i].decl[3] = <<"default-features", "false">>
          /\ file.content[i].decl[4] = <<"features", "[\"std\", \"derive\"]">>

(***************************************************************************)
(* C19: find_innermost_manifest(path) returns the Cargo.toml of the        *)
(* nearest directory, among path itself and then its ancestors from        *)
(* innermost to outermost, whose manifest parses and declares a package or *)
(* a workspace (the crate's manifest, not the workspace's, inside a member *)
(* crate), and None when there is no such directory.                       *)
(***************************************************************************)
DeclaresPackageOrWorkspace(d) ==
    manifests[d] \in {"package", "workspace", "package_workspace"}

DeclaresWorkspace(d) == manifests[d] \in {"workspace", "package_workspace"}

\* the directory the path is or lies in, and the directories around it
DirOf(p) == Resolve(p).dir

Enclosing(p) == 1..DirOf(p)

Nearest(ds) == CHOOSE d \in ds : \A e \in ds : e <= d

ReturnsManifestOf(d) ==
    /\ result.kind = "Some"
    /\ result.path[Len(result.path)] = "Cargo.toml"
    /\ ~Resolve(Parent(result.path)).file
    /\ Resolve(Parent(result.path)).dir = d

C19_InnermostManifest ==
    Called("find_innermost_manifest")
    => LET ds == {d \in Enclosing(path) : DeclaresPackageOrWorkspace(d)}
       IN  IF ds = {} THEN result = None ELSE ReturnsManifestOf(Nearest(ds))

(***************************************************************************)
(* C20: find_workspace_manifest(path) returns the Cargo.toml of the        *)
(* nearest directory, among path itself and then its ancestors, whose      *)
(* manifest declares a workspace, skipping nearer manifests that only      *)
(* declare a package, and None when no enclosing manifest declares a       *)
(* workspace.                                                              *)
(***************************************************************************)
C20_WorkspaceManifest ==
    Called("find_workspace_manifest")
    => LET ds == {d \in Enclosing(path) : DeclaresWorkspace(d)}
       IN  IF ds = {} THEN result = None ELSE ReturnsManifestOf(Nearest(ds))

(***************************************************************************)
(* C21: when find_innermost_manifest or find_workspace_manifest is called  *)
(* with a path relative to the current directory (the empty path included) *)
(* and finds a manifest in or below the current directory, the path        *)
(* returned starts with the current-directory component: ./Cargo.toml,     *)
(* ./crate/Cargo.toml, never the unprefixed Cargo.toml.                    *)
(***************************************************************************)
RelativeToCwd(p) == p = <<>> \/ p[1] \notin {RootDir, ParentDir}

C21_PrefixedWithCurDir ==
    ((Called("find_innermost_manifest") \/ Called("find_workspace_manifest"))
        /\ RelativeToCwd(path)
        /\ result.kind = "Some")
    => result.path[1] = CurDir

(***************************************************************************)
(* C22: prefix_with_current_dir(path) returns ./path when the first        *)
(* component of path is a normal name, and path unchanged when its first   *)
(* component is the current directory, the parent directory or the root.   *)
(***************************************************************************)
FirstComponent(p) == components(p)[1]

C22_PrefixOnlyNormal ==
    (Called("prefix_with_current_dir") /\ components(path) # <<>>)
    => IF FirstComponent(path) \in {CurDir, ParentDir, RootDir}
       THEN result.path = path
       ELSE components(result.path) = <<CurDir>> \o components(path)

\* my/path became ./my/path
C22_Witness ==
    /\ Called("prefix_with_current_dir")
    /\ path = Written(FALSE, <<"my", "path">>)
    /\ components(result.path) = <<CurDir, "my", "path">>

(***************************************************************************)
(* C23: prefix_with_current_dir applied to the empty path returns the      *)
(* path `.`, whose single component is the current directory.              *)
(***************************************************************************)
C23_EmptyBecomesCurDir ==
    (Called("prefix_with_current_dir") /\ path = Written(FALSE, <<>>))
    => components(result.path) = <<CurDir>>

(***************************************************************************)
(* C24: the where clause extract_generics returns holds the predicates of  *)
(* the input's where clause, in their order, then one predicate            *)
(* `param: bounds` for each type or lifetime parameter that has bounds, in *)
(* declaration order; const parameters add none; it is None exactly when   *)
(* the input has no where clause and no type or lifetime parameter has     *)
(* bounds.                                                                 *)
(***************************************************************************)
Bounded(params) ==
    SelectSeq(params, LAMBDA q : q.kind \in {"Type", "Lifetime"} /\ q.bounds # <<>>)

PredicateFor(q) == [kind |-> q.kind, bounded |-> q.ident, bounds |-> q.bounds]

ExpectedPredicates(generics) ==
    generics.where_clause.predicates
    \o [i \in 1..Len(Bounded(generics.params)) |->
            PredicateFor(Bounded(generics.params)[i])]

C24_WhereClause ==
    Called("extract_generics")
    => /\ result.where_clause.some
            <=> (input.where_clause.some \/ Bounded(input.params) # <<>>)
       /\ result.where_clause.some
            => result.where_clause.predicates = ExpectedPredicates(input)

\* where D: From<String> with <T: Config + Clone, const N: usize, 'b: 'a>
C24_Witness ==
    /\ Called("extract_generics")
    /\ input.where_clause.predicates # <<>>
    /\ input.params = <<TypeParam("T", <<"Config", "Clone">>, ""),
                        ConstParam("N", "usize"),
                        LifetimeParam("'b", <<"'a">>)>>
    /\ Len(result.where_clause.predicates) = 3
    /\ result.where_clause.predicates[3]
          = [kind |-> "Lifetime", bounded |-> "'b", bounds |-> <<"'a">>]

(***************************************************************************)
(* C25: the first two outputs of extract_generics hold one entry per input *)
(* parameter, in input order; a type or lifetime parameter is its bare     *)
(* name in both, a const parameter is its whole declaration in the first   *)
(* and its identifier only in the second, so the outputs differ only at    *)
(* const parameters.                                                       *)
(***************************************************************************)
BareName(q) ==
    [kind |-> q.kind, ident |-> q.ident, bounds |-> <<>>, ty |-> "", default |-> ""]

C25_DeclarationsAndIdents ==
    Called("extract_generics")
    => /\ Len(result.declarations) = Len(input.params)
       /\ Len(result.idents) = Len(input.params)
       /\ \A i \in 1..Len(input.params) :
             LET q == input.params[i] IN
             IF q.kind = "Const"
             THEN /\ result.declarations[i] = q
                  /\ result.idents[i].ident = q.ident
                  /\ result.idents[i].ty = ""
                  /\ result.idents[i].bounds = <<>>
                  /\ result.idents[i] # result.declarations[i]
             ELSE /\ result.declarations[i] = BareName(q)
                  /\ result.idents[i] = BareName(q)

\* <D: Debug = u8, const N: usize>
C25_Witness ==
    /\ Called("extract_generics")
    /\ input.params = <<TypeParam("D", <<"Debug">>, "u8"), ConstParam("N", "usize")>>
    /\ result.declarations = <<TypeParam("D", <<>>, ""), ConstParam("N", "usize")>>
    /\ result.idents = <<TypeParam("D", <<>>, ""), TypeParam("N", <<>>, "")>>

(***************************************************************************)
(* C26: tt_without_docs(item) returns a copy of item whose attributes are  *)
(* exactly those of the input whose path is not doc, in their order, the   *)
(* rest being equal to the input; the input is not modified; for a variant *)
(* without an attribute list (Verbatim) the result equals the input.       *)
(***************************************************************************)
RECURSIVE NonDocs(_)
NonDocs(attrs) ==
    IF attrs = <<>>
    THEN <<>>
    ELSE (IF Head(attrs).segments = <<"doc">> THEN <<>> ELSE <<Head(attrs)>>)
         \o NonDocs(Tail(attrs))

C26_StepWithoutDocs ==
    (pc' = "tt_without_docs")
    => /\ input' = input
       /\ result'.variant = input.variant
       /\ result'.tokens = input.tokens
       /\ result'.attrs = NonDocs(input.attrs)
       /\ input.variant = "Verbatim" => result' = input

C26_WithoutDocs == [][C26_StepWithoutDocs]_vars

\* a doc comment and #[doc(hidden)] went, #[my::doc] and #[some_attr] stayed
C26_Witness ==
    /\ Called("tt_without_docs")
    /\ input.variant = "Struct"
    /\ input.attrs = <<Attribute("Outer", <<"doc">>, "= \" text\""),
                       Attribute("Outer", <<"my", "doc">>, ""),
                       Attribute("Outer", <<"some_attr">>, "")>>
    /\ result.attrs = <<Attribute("Outer", <<"my", "doc">>, ""),
                        Attribute("Outer", <<"some_attr">>, "")>>

(***************************************************************************)
(* C27: resuming the scan at the first failing offset j after an abandoned *)
(* alignment at i is observably equivalent to resuming at i + 1: for every *)
(* needle and haystack, contains returns what a search returns that        *)
(* restarts each failed alignment at the next position.  The code steps    *)
(* over the alignments between i and j: needle x x y, haystack x x x y.    *)
(***************************************************************************)
RECURSIVE RestartingContains(_, _)
RECURSIVE RestartingScan(_, _, _)

\* the scan of the code with the one change that a failed alignment at i
\* is followed by the alignment at i + 1
RestartingScan(small_tt, large_tt, i) ==
    IF i >= Len(large_tt)
    THEN "false"
    ELSE IF syntactic_token_tree_compare(At(large_tt, i), At(small_tt, 0))
         THEN LET run == VerifyRun(small_tt, large_tt, i, i)
              IN  CASE run.out = "matched" -> "true"
                    [] run.out = "panic" -> "panic"
                    [] OTHER -> RestartingScan(small_tt, large_tt, i + 1)
         ELSE IF At(large_tt, i).variant = "Group"
              THEN LET inner == RestartingContains(small_tt, At(large_tt, i).stream)
                   IN  IF inner = "false"
                       THEN RestartingScan(small_tt, large_tt, i + 1)
                       ELSE inner
              ELSE RestartingScan(small_tt, large_tt, i + 1)

RestartingContains(small, large) ==
    IF small = <<>>
    THEN "true"
    ELSE IF TooShort(small, large)
         THEN "false"
         ELSE RestartingScan(small, large, 0)

C27_ResumeRulesEquivalent ==
    Called("contains")
    => result = RestartingContains(small_stream, large_stream)

(***************************************************************************)
(* C28: contains is sound: when it returns true for a non-empty needle,    *)
(* some sequence (the haystack's top level or the children of a group      *)
(* nested in it) holds, from some offset on, len(needle) consecutive trees *)
(* pairwise equal to the needle's under syntactic_token_tree_compare.      *)
(***************************************************************************)
C28_ContainsSound ==
    (Called("contains") /\ small_stream # <<>> /\ result = "true")
    => \/ OccursAtTopLevel(small_stream, large_stream)
       \/ OccursInNestedGroup(small_stream, large_stream)

\* x y found in the group of y (x y), not at the top level
C28_Witness ==
    /\ Called("contains")
    /\ small_stream = <<Ident("x"), Ident("y")>>
    /\ large_stream = <<Ident("y"), Group("Parenthesis", <<Ident("x"), Ident("y")>>)>>
    /\ result = "true"
    /\ ~OccursAtTopLevel(small_stream, large_stream)
    /\ MatchesAt(small_stream, large_stream[2].stream, 0)

(***************************************************************************)
(* C29: format_dir never aborts: every failure of either command, the      *)
(* fallback failing to start with an I/O error after the primary exited    *)
(* unsuccessfully included, is reported to the caller as an Err value.     *)
(* The code unwraps the fallback's Result with expect and panics.          *)
(***************************************************************************)
C29_NeverAborts ==
    /\ pc # "panicked"
    /\ (pc = "returned" /\ ~ExitedOk(commands[Len(commands)].out))
          => (result.kind = "Err" /\ result.error \in {"IO", "Descriptive"})

====
